---- MODULE Spec2Model ----
(***************************************************************************)
(* A model of task_manager.py: the Task entity, the TaskManager store with *)
(* its whole-file JSON persistence, and the TaskManagerUI handlers that    *)
(* drive it.  Python values are modelled as strings: text, enum members    *)
(* ("Priority.LOW", "Status.PENDING") and None are all distinct strings.   *)
(***************************************************************************)
EXTENDS Integers, Sequences, FiniteSets, TLC

\* Largest collection length the model builds.
MaxTasks == 2
\* Last second of the wall clock the model lets pass.
MaxClock == 1

VARIABLES
    tasks,      \* TaskManager.tasks: a sequence of Task objects
    file,       \* the content of the file at TaskManager.filename
    now,        \* the wall clock, in seconds
    running,    \* whether a process holding the store is alive
    view,       \* the list a caller last got from list_tasks
    call        \* the last operation: its arguments and how it ended

vars == <<tasks, file, now, running, view, call>>

None == "None"

(***************************************************************************)
(* The enumerations.                                                       *)
(***************************************************************************)
PriorityMembers == <<"Priority.LOW", "Priority.MEDIUM", "Priority.HIGH">>
PriorityNames == <<"LOW", "MEDIUM", "HIGH">>
StatusMembers == <<"Status.PENDING", "Status.IN_PROGRESS", "Status.COMPLETED">>
StatusValues == <<"Pending", "In Progress", "Completed">>

Range(s) == {s[i] : i \in DOMAIN s}
IndexOf(s, x) == CHOOSE i \in DOMAIN s : s[i] = x

\* member.name
PriorityName(p) == PriorityNames[IndexOf(PriorityMembers, p)]
\* Priority[name]: a lookup by symbolic name, KeyError when there is none
IsPriorityName(s) == s \in Range(PriorityNames)
PriorityByName(s) == PriorityMembers[IndexOf(PriorityNames, s)]
\* Priority(choice): a lookup by value 1..3
PriorityByValue(n) == PriorityMembers[n]
\* member.value
StatusValue(m) == StatusValues[IndexOf(StatusMembers, m)]
\* Status(value): a lookup by value, which also accepts a member itself;
\* ValueError when there is none
IsStatusValue(v) == v \in Range(StatusValues) \cup Range(StatusMembers)
StatusByValue(v) ==
    IF v \in Range(StatusMembers) THEN v
    ELSE StatusMembers[IndexOf(StatusValues, v)]

\* str.upper() on the texts the model supplies
Upper(s) ==
    CASE s = "low" -> "LOW"
      [] s = "high" -> "HIGH"
      [] s = "urgent" -> "URGENT"
      [] OTHER -> s
\* whether value.upper exists: text has it, an enum member has not
HasUpper(v) == v \notin Range(PriorityMembers) \cup Range(StatusMembers)

\* datetime.now().strftime("%Y-%m-%d %H:%M:%S")
Stamp(n) == "2024-01-01 00:00:0" \o ToString(n)

(***************************************************************************)
(* Task.  attrs holds the names of the class attributes (methods) that an  *)
(* instance attribute of the same name hides.                              *)
(***************************************************************************)
DataFields ==
    {"title", "description", "due_date", "priority", "status",
     "created_at", "completed_at"}
ClassAttrs == {"__init__", "__str__", "mark_complete", "to_dict", "from_dict"}

NewTask(title, description, due_date, priority, status) ==
    [title |-> title, description |-> description, due_date |-> due_date,
     priority |-> priority, status |-> status,
     created_at |-> Stamp(now), completed_at |-> None, attrs |-> {}]

\* hasattr(task, key)
HasAttr(task, key) == key \in DataFields \cup ClassAttrs

\* setattr(task, key, value)
SetAttr(task, key, value) ==
    IF key \in DataFields THEN [task EXCEPT ![key] = value]
    ELSE [task EXCEPT !.attrs = @ \cup {key}]

\* Task.mark_complete; calling a hidden method raises TypeError
CanMarkComplete(task) == "mark_complete" \notin task.attrs
MarkComplete(task) ==
    [task EXCEPT !.status = "Status.COMPLETED", !.completed_at = Stamp(now)]

ToDict(task) ==
    [title |-> task.title, description |-> task.description,
     due_date |-> task.due_date, priority |-> PriorityName(task.priority),
     status |-> StatusValue(task.status), created_at |-> task.created_at,
     completed_at |-> task.completed_at]

\* Task.from_dict: KeyError on a missing key or an unknown priority name,
\* ValueError on an unknown status value
FromDictError(data) ==
    CASE \E k \in {"title", "description", "due_date", "priority"} :
             k \notin DOMAIN data -> "KeyError"
      [] ~IsPriorityName(data.priority) -> "KeyError"
      [] "status" \notin DOMAIN data -> "KeyError"
      [] ~IsStatusValue(data.status) -> "ValueError"
      [] \E k \in {"created_at", "completed_at"} :
             k \notin DOMAIN data -> "KeyError"
      [] OTHER -> None

FromDict(data) ==
    [NewTask(data.title, data.description, data.due_date,
             PriorityByName(data.priority), StatusByValue(data.status))
     EXCEPT !.created_at = data.created_at,
            !.completed_at = data.completed_at]

(***************************************************************************)
(* The file: absent, text that is not JSON (an empty file included), or a  *)
(* JSON array of records.                                                  *)
(***************************************************************************)
Absent == [kind |-> "absent", recs |-> <<>>]
Garbage == [kind |-> "garbage", recs |-> <<>>]
JsonFile(recs) == [kind |-> "json", recs |-> recs]

Dump(ts) == [i \in DOMAIN ts |-> ToDict(ts[i])]

\* TaskManager.save_tasks: open(filename, "w") empties the file, then the
\* records are built, then written
SaveTasks(ts) ==
    IF \E i \in DOMAIN ts : "to_dict" \in ts[i].attrs
    THEN [file |-> Garbage, exc |-> "TypeError"]
    ELSE [file |-> JsonFile(Dump(ts)), exc |-> None]

\* load_tasks with "except Exception" in place of json.JSONDecodeError
LoadTasksCatchAll(f) ==
    IF f.kind = "json" /\ \A i \in DOMAIN f.recs : FromDictError(f.recs[i]) = None
    THEN [tasks |-> [i \in DOMAIN f.recs |-> FromDict(f.recs[i])],
          exc |-> None]
    ELSE [tasks |-> <<>>, exc |-> None]

\* TaskManager.__init__ and load_tasks: only json.JSONDecodeError is caught
LoadTasks(f) ==
    CASE f.kind = "absent" -> [tasks |-> <<>>, exc |-> None]
      [] f.kind = "garbage" -> [tasks |-> <<>>, exc |-> None]
      [] OTHER ->
            IF \E i \in DOMAIN f.recs : FromDictError(f.recs[i]) # None
            THEN LET bad == CHOOSE i \in DOMAIN f.recs :
                                /\ FromDictError(f.recs[i]) # None
                                /\ \A j \in 1..(i-1) :
                                       FromDictError(f.recs[j]) = None
                 IN [tasks |-> <<>>, exc |-> FromDictError(f.recs[bad])]
            ELSE [tasks |-> [i \in DOMAIN f.recs |-> FromDict(f.recs[i])],
                  exc |-> None]

(***************************************************************************)
(* TaskManager operations, as functions of the collection and the file.    *)
(* Each yields the collection and file it leaves, what it returned or      *)
(* raised, and whether it opened the file for writing.                     *)
(***************************************************************************)
Ended(ts, f, outcome, wrote) ==
    [tasks |-> ts, file |-> f, outcome |-> outcome, wrote |-> wrote]

\* the guard without its lower bound, as "if index < len(self.tasks)"
InRangeNoLowerBound(index, n) == index < n

\* the guard of delete_task and update_task
InRange(index, n) == 0 <= index /\ index < n

\* the 1-based place of self.tasks[index]; a negative index counts from the end
PyPos(index, n) == IF index < 0 THEN n + index + 1 ELSE index + 1

RemoveAt(ts, pos) ==
    [i \in 1..(Len(ts) - 1) |-> IF i < pos THEN ts[i] ELSE ts[i + 1]]

AddTask(ts, f, task) ==
    LET ts2 == Append(ts, task)
        s == SaveTasks(ts2)
    IN Ended(ts2, s.file, s.exc, TRUE)

DeleteTask(ts, f, index) ==
    IF InRange(index, Len(ts))
    THEN IF PyPos(index, Len(ts)) \notin DOMAIN ts
         THEN Ended(ts, f, "IndexError", FALSE)
         ELSE LET ts2 == RemoveAt(ts, PyPos(index, Len(ts)))
                  s == SaveTasks(ts2)
              IN Ended(ts2, s.file, IF s.exc # None THEN s.exc ELSE "True", TRUE)
    ELSE Ended(ts, f, "False", FALSE)

\* the loop of update_task over kwargs, a sequence of <<key, value>> in the
\* order they were passed; it stops at the first lookup that raises
RECURSIVE ApplyKwargs(_, _)
ApplyKwargs(task, kw) ==
    IF kw = <<>> THEN [task |-> task, exc |-> None]
    ELSE LET key == kw[1][1]
             value == kw[1][2]
         IN IF ~HasAttr(task, key) THEN ApplyKwargs(task, Tail(kw))
            ELSE IF key = "priority"
            THEN IF ~HasUpper(value)
                 THEN [task |-> task, exc |-> "AttributeError"]
                 ELSE IF ~IsPriorityName(Upper(value))
                 THEN [task |-> task, exc |-> "KeyError"]
                 ELSE ApplyKwargs(
                          SetAttr(task, key, PriorityByName(Upper(value))),
                          Tail(kw))
            ELSE IF key = "status"
            THEN IF ~IsStatusValue(value)
                 THEN [task |-> task, exc |-> "ValueError"]
                 ELSE ApplyKwargs(SetAttr(task, key, StatusByValue(value)),
                                  Tail(kw))
            ELSE ApplyKwargs(SetAttr(task, key, value), Tail(kw))

UpdateTask(ts, f, index, kw) ==
    IF InRange(index, Len(ts))
    THEN IF PyPos(index, Len(ts)) \notin DOMAIN ts
         THEN Ended(ts, f, "IndexError", FALSE)
         ELSE LET pos == PyPos(index, Len(ts))
                  r == ApplyKwargs(ts[pos], kw)
                  ts2 == [ts EXCEPT ![pos] = r.task]
                  s == SaveTasks(ts2)
              IN IF r.exc # None THEN Ended(ts2, f, r.exc, FALSE)
                 ELSE Ended(ts2, s.file,
                            IF s.exc # None THEN s.exc ELSE "True", TRUE)
    ELSE Ended(ts, f, "False", FALSE)

\* list_tasks: the store's own list when no filter is given, a new list of
\* the matching tasks (by place in the store) otherwise
NoView == [kind |-> "none", items |-> <<>>]
RECURSIVE Matching(_, _, _)
Matching(ts, i, status) ==
    IF i > Len(ts) THEN <<>>
    ELSE (IF ts[i].status = status THEN <<i>> ELSE <<>>)
         \o Matching(ts, i + 1, status)
ListTasks(ts, filter_status) ==
    IF filter_status # None
    THEN [kind |-> "copy", items |-> Matching(ts, 1, filter_status)]
    ELSE [kind |-> "alias", items |-> <<>>]

\* the places in the store of the elements of a returned list
ViewItems(v, ts) ==
    IF v.kind = "alias" THEN [i \in 1..Len(ts) |-> i] ELSE v.items

(***************************************************************************)
(* The inputs the model supplies.                                          *)
(***************************************************************************)
OtherStamp == "1999-01-01 00:00:00"
DueDate == "2025-01-01"

\* index arguments: negative, in range, the length, and beyond
Indexes == (-1)..MaxTasks

\* the (title, description, due_date, priority) a caller builds a Task from:
\* Task("A") with the defaults, and the front-end's add flow
NewTaskArgs ==
    { <<"A", "", None, "Priority.MEDIUM">>,
      <<"B", "d", DueDate, "Priority.HIGH">> }

\* the keyword arguments of update_task
KwargsSet ==
    { << <<"title", "B">>, <<"priority", "urgent">> >>,
      << <<"color", "red">>, <<"priority", "low">>,
         <<"status", "Pending">> >>,
      << <<"created_at", OtherStamp>>, <<"completed_at", OtherStamp>> >>,
      << <<"status", "Done">> >>,
      << <<"to_dict", "x">> >> }

\* the keyword arguments the index-guard runs use
StoreKwargs ==
    { << <<"title", "B">>, <<"priority", "urgent">> >>,
      << <<"priority", "low">> >>,
      << <<"to_dict", "x">> >> }

\* the files that may lie at the path before the first run
GoodRecord ==
    [title |-> "A", description |-> "", due_date |-> None,
     priority |-> "MEDIUM", status |-> "Pending",
     created_at |-> OtherStamp, completed_at |-> None]
InitialFiles ==
    { Absent, Garbage, JsonFile(<<GoodRecord>>),
      JsonFile(<<GoodRecord, [GoodRecord EXCEPT !.priority = "medium"]>>),
      JsonFile(<<[GoodRecord EXCEPT !.status = "Done"]>>),
      JsonFile(<<[title |-> "A", description |-> "", due_date |-> None,
                  priority |-> "LOW", status |-> "Pending",
                  created_at |-> OtherStamp]>>) }

(***************************************************************************)
(* The state machine.                                                      *)
(***************************************************************************)
Call(op, index, kw, outcome, wrote) ==
    [op |-> op, index |-> index, kw |-> kw, outcome |-> outcome,
     wrote |-> wrote]

\* TaskManager(filename): a process starts and constructs its store
Construct(f) ==
    LET r == LoadTasks(f)
    IN /\ tasks' = r.tasks
       /\ running' = (r.exc = None)
       /\ call' = Call("start", 0, <<>>, r.exc, FALSE)

Init ==
    /\ file \in InitialFiles
    /\ now = 0
    /\ view = NoView
    /\ tasks = LoadTasks(file).tasks
    /\ running = (LoadTasks(file).exc = None)
    /\ call = Call("start", 0, <<>>, LoadTasks(file).exc, FALSE)

Start ==
    /\ ~running
    /\ Construct(file)
    /\ view' = NoView
    /\ UNCHANGED <<file, now>>

\* a second of wall-clock time passes
Tick ==
    /\ now < MaxClock
    /\ now' = now + 1
    /\ call' = Call("tick", 0, <<>>, None, FALSE)
    /\ UNCHANGED <<tasks, file, running, view>>

\* a store operation whose exception the caller may catch
StoreOp(op, index, kw, r) ==
    /\ tasks' = r.tasks
    /\ file' = r.file
    /\ call' = Call(op, index, kw, r.outcome, r.wrote)
    /\ view' = NoView
    /\ UNCHANGED <<now, running>>

\* Task(...) followed by add_task
Add(a) ==
    /\ running
    /\ Len(tasks) < MaxTasks
    /\ StoreOp("add", 0, <<>>,
               AddTask(tasks, file,
                       NewTask(a[1], a[2], a[3], a[4], "Status.PENDING")))

Delete(index) ==
    /\ running
    /\ StoreOp("delete", index, <<>>, DeleteTask(tasks, file, index))

Update(index, kw) ==
    /\ running
    /\ StoreOp("update", index, kw, UpdateTask(tasks, file, index, kw))

List(filter_status) ==
    /\ running
    /\ view' = ListTasks(tasks, filter_status)
    /\ call' = Call("list", 0, <<>>, None, FALSE)
    /\ UNCHANGED <<tasks, file, now, running>>

\* the caller removes the last element of the list it was returned
ViewPop ==
    /\ running
    /\ view.kind # "none"
    /\ Len(ViewItems(view, tasks)) > 0
    /\ IF view.kind = "alias"
       THEN /\ tasks' = SubSeq(tasks, 1, Len(tasks) - 1)
            /\ view' = view
       ELSE /\ tasks' = tasks
            /\ view' = [view EXCEPT
                           !.items = SubSeq(@, 1, Len(@) - 1)]
    /\ call' = Call("view_pop", 0, <<>>, None, FALSE)
    /\ UNCHANGED <<file, now, running>>

\* the caller calls mark_complete on element k of the list it was returned
ViewMark(k) ==
    /\ running
    /\ view.kind # "none"
    /\ k \in DOMAIN ViewItems(view, tasks)
    /\ LET pos == ViewItems(view, tasks)[k]
       IN IF CanMarkComplete(tasks[pos])
          THEN /\ tasks' = [tasks EXCEPT ![pos] = MarkComplete(@)]
               /\ call' = Call("view_mark", k, <<>>, None, FALSE)
          ELSE /\ tasks' = tasks
               /\ call' = Call("view_mark", k, <<>>, "TypeError", FALSE)
    /\ UNCHANGED <<file, now, running, view>>

(***************************************************************************)
(* TaskManagerUI handlers.  An exception a handler does not catch ends     *)
(* the process: run() and the main block catch only KeyboardInterrupt.     *)
(***************************************************************************)
\* what the user enters in the update flow: title, description, due date
\* (blank keeps the current value), priority choice, status choice
UIUpdateArgs ==
    { <<"B", "", None, 3, 2>>,
      <<"", "d", DueDate, 1, 3>> }

\* a or b, for text and None
Or(a, b) == IF a = "" \/ a = None THEN b ELSE a

\* the keyword arguments TaskManagerUI.update_task passes on
UIKwargs(task, a) ==
    << <<"title", Or(a[1], task.title)>>,
       <<"description", Or(a[2], task.description)>>,
       <<"due_date", Or(a[3], task.due_date)>>,
       <<"priority", PriorityByValue(a[4])>>,
       <<"status", StatusMembers[a[5]]>> >>

\* TaskManagerUI.update_task, given task number n as the user types it
UIUpdate(n, a) ==
    /\ running
    /\ view' = NoView
    /\ now' = now
    /\ IF tasks = <<>>
       THEN /\ call' = Call("ui_update", n, <<>>,
                            "No tasks available to update.", FALSE)
            /\ UNCHANGED <<tasks, file, running>>
       ELSE IF 0 <= n - 1 /\ n - 1 < Len(tasks)
       THEN LET kw == UIKwargs(tasks[n], a)
                r == UpdateTask(tasks, file, n - 1, kw)
            IN /\ tasks' = r.tasks
               /\ file' = r.file
               /\ running' = (r.outcome \in {"True", "False", "ValueError"})
               /\ call' = Call("ui_update", n, kw,
                               CASE r.outcome \in {"True", "False"} ->
                                        "Task updated successfully!"
                                 [] r.outcome = "ValueError" ->
                                        "Please enter a valid number."
                                 [] OTHER -> r.outcome,
                               r.wrote)
       ELSE /\ call' = Call("ui_update", n, <<>>, "Invalid task number.",
                            FALSE)
            /\ UNCHANGED <<tasks, file, running>>

\* the places of the tasks that are not completed, in store order
RECURSIVE Incomplete(_, _)
Incomplete(ts, i) ==
    IF i > Len(ts) THEN <<>>
    ELSE (IF ts[i].status # "Status.COMPLETED" THEN <<i>> ELSE <<>>)
         \o Incomplete(ts, i + 1)

\* TaskManagerUI.mark_complete, given task number n as the user types it
UIMarkComplete(n) ==
    /\ running
    /\ view' = NoView
    /\ now' = now
    /\ LET inc == Incomplete(tasks, 1)
       IN IF tasks = <<>>
          THEN /\ call' = Call("ui_mark_complete", n, <<>>,
                               "No tasks available.", FALSE)
               /\ UNCHANGED <<tasks, file, running>>
          ELSE IF inc = <<>>
          THEN /\ call' = Call("ui_mark_complete", n, <<>>,
                               "No incomplete tasks found.", FALSE)
               /\ UNCHANGED <<tasks, file, running>>
          ELSE IF 0 <= n - 1 /\ n - 1 < Len(inc)
          THEN IF ~CanMarkComplete(tasks[inc[n]])
               THEN /\ call' = Call("ui_mark_complete", n, <<>>,
                                    "TypeError", FALSE)
                    /\ running' = FALSE
                    /\ UNCHANGED <<tasks, file>>
               ELSE LET ts2 == [tasks EXCEPT ![inc[n]] = MarkComplete(@)]
                        s == SaveTasks(ts2)
                    IN /\ tasks' = ts2
                       /\ file' = s.file
                       /\ running' = (s.exc = None)
                       /\ call' = Call("ui_mark_complete", n, <<>>,
                                       IF s.exc # None THEN s.exc
                                       ELSE "Task marked as complete!",
                                       TRUE)
          ELSE /\ call' = Call("ui_mark_complete", n, <<>>,
                               "Invalid task number.", FALSE)
               /\ UNCHANGED <<tasks, file, running>>

\* TaskManagerUI.exit_program: save, then sys.exit(0)
Exit ==
    /\ running
    /\ LET s == SaveTasks(tasks)
       IN /\ file' = s.file
          /\ call' = Call("exit", 0, <<>>, s.exc, TRUE)
    /\ running' = FALSE
    /\ view' = NoView
    /\ UNCHANGED <<tasks, now>>

\* the store's own operations, with update_task's keyword arguments from K
StoreStep(K) ==
    \/ \E a \in NewTaskArgs : Add(a)
    \/ \E i \in Indexes : Delete(i)
    \/ \E i \in Indexes, kw \in K : Update(i, kw)

\* The store driven through its API, with the front-end's completion flow.
Next ==
    \/ Start
    \/ StoreStep(KwargsSet)
    \/ \E n \in 0..(MaxTasks + 1) : UIMarkComplete(n)
    \/ Exit

Spec == Init /\ [][Next]_vars

\* The store's index guard and its load at construction.
NextStore ==
    \/ Start
    \/ StoreStep(StoreKwargs)
    \/ Exit

SpecStore == Init /\ [][NextStore]_vars

\* The front-end's flows and what a caller does with a returned list.
NextUI ==
    \/ Start
    \/ Tick
    \/ \E a \in NewTaskArgs : Add(a)
    \/ \E f \in {None} \cup Range(StatusMembers) : List(f)
    \/ ViewPop
    \/ \E k \in 1..MaxTasks : ViewMark(k)
    \/ \E n \in 0..(MaxTasks + 1), a \in UIUpdateArgs : UIUpdate(n, a)
    \/ \E n \in 0..(MaxTasks + 1) : UIMarkComplete(n)
    \/ Exit

SpecUI == Init /\ [][NextUI]_vars

(***************************************************************************)
(* The claims.                                                             *)
(***************************************************************************)

\* C1: whenever a mutating operation (add, delete or update with an index in
\* range, the front-end's completion) has ended, the file holds the
\* collection's records, task by task, in order.
C1_FileMatchesMemory ==
    ( \/ call.op = "add"
      \/ call.op \in {"delete", "update"} /\ call.outcome # "False"
      \/ /\ call.op = "ui_mark_complete"
         /\ call.outcome \notin {"No tasks available.",
                                 "No incomplete tasks found.",
                                 "Invalid task number."} )
    => file = JsonFile(Dump(tasks))

\* C2: completed_at is set only on a task whose status is COMPLETED, the
\* front-end's completion leaves a completed task with completed_at set, and
\* no update_task call changes any task's completed_at.
C2_CompletedAtOnlyByMarkComplete ==
    [][ /\ \A i \in DOMAIN tasks' :
               tasks'[i].completed_at # None
                   => tasks'[i].status = "Status.COMPLETED"
        /\ (call'.op = "ui_mark_complete"
                /\ call'.outcome = "Task marked as complete!")
               => \E i \in DOMAIN tasks' :
                      /\ tasks'[i].status = "Status.COMPLETED"
                      /\ tasks'[i].completed_at # None
        /\ call'.op = "update"
               => \A i \in DOMAIN tasks :
                      tasks'[i].completed_at = tasks[i].completed_at
      ]_vars

\* C3: no add, update, completion, save or delete of another task changes
\* the created_at of a task in the store.
C3_CreatedAtNeverChanges ==
    [][ /\ call'.op \in {"add", "update", "ui_mark_complete", "exit"}
               => \A i \in DOMAIN tasks :
                      tasks'[i].created_at = tasks[i].created_at
        /\ (call'.op = "delete" /\ call'.outcome = "True")
               => \A i \in DOMAIN tasks :
                      /\ i < call'.index + 1
                             => tasks'[i].created_at = tasks[i].created_at
                      /\ i > call'.index + 1
                             => tasks'[i - 1].created_at = tasks[i].created_at
      ]_vars

\* C4: delete_task and update_task with an index outside 0 <= index < length
\* return False, raise nothing, leave the collection as it was and do not
\* write the file.
C4_OutOfRangeChangesNothing ==
    [][ ( /\ call'.op \in {"delete", "update"}
          /\ ~(0 <= call'.index /\ call'.index < Len(tasks)) )
        => /\ call'.outcome = "False"
           /\ ~call'.wrote
           /\ tasks' = tasks
           /\ file' = file
      ]_vars

\* C4's case: delete_task(-1) on a collection that is not empty returned False.
C4_Witness ==
    /\ call.op = "delete"
    /\ call.index < 0
    /\ Len(tasks) > 0
    /\ call.outcome = "False"

\* C5: when update_task with an index in range and no method name among its
\* keywords ends, by returning or by raising, either every supplied data
\* field is applied and the collection persisted, or the collection and the
\* file are as they were before.
C5_UpdateAllOrNothing ==
    [][ ( /\ call'.op = "update"
          /\ 0 <= call'.index /\ call'.index < Len(tasks)
          /\ \A j \in DOMAIN call'.kw : call'.kw[j][1] \notin ClassAttrs )
        => LET t == tasks'[call'.index + 1]
               kw == call'.kw
               applied ==
                   \A j \in DOMAIN kw :
                       LET k == kw[j][1]
                           v == kw[j][2]
                       IN k \in DataFields =>
                              CASE k = "priority" ->
                                       /\ Upper(v) \in {"LOW", "MEDIUM", "HIGH"}
                                       /\ t.priority = "Priority." \o Upper(v)
                                [] k = "status" ->
                                       /\ v \in Range(StatusValues)
                                       /\ StatusValue(t.status) = v
                                [] OTHER -> t[k] = v
           IN \/ applied /\ file' = JsonFile(Dump(tasks'))
              \/ tasks' = tasks /\ file' = file
      ]_vars

\* C6: exiting (which saves the collection) and then constructing a fresh
\* store on the same path yields the saved collection: the same length and
\* order, every task equal field by field.
C6_SaveThenLoadRoundTrip ==
    [][ (call.op = "exit" /\ call'.op = "start")
        => /\ call'.outcome = None
           /\ Len(tasks') = Len(tasks)
           /\ \A i \in DOMAIN tasks : \A k \in DataFields :
                  tasks'[i][k] = tasks[i][k]
      ]_vars

\* C7: removing an element from the list list_tasks returned leaves the
\* store's collection unchanged, while mark_complete on an element of it
\* completes the stored task.
C7_ReturnedListIsNew ==
    [][ /\ call'.op = "view_pop" => tasks' = tasks
        /\ (call'.op = "view_mark" /\ call'.outcome = None)
               => tasks'[ViewItems(view, tasks)[call'.index]].status
                      = "Status.COMPLETED"
      ]_vars

\* C8: constructing the store on a path with no file, or with a file that is
\* not JSON, yields an empty collection and raises nothing; on a JSON file
\* with a record that lacks a key or has an unknown priority name or status
\* value, construction raises.
C8_LoadPolicy ==
    call.op = "start" =>
        /\ file.kind \in {"absent", "garbage"}
               => call.outcome = None /\ running /\ tasks = <<>>
        /\ ( /\ file.kind = "json"
             /\ \E i \in DOMAIN file.recs :
                    LET r == file.recs[i]
                    IN IF DOMAIN r # DataFields THEN TRUE
                       ELSE \/ r.priority \notin {"LOW", "MEDIUM", "HIGH"}
                            \/ r.status \notin
                                   {"Pending", "In Progress", "Completed"} )
               => call.outcome \in {"KeyError", "ValueError"} /\ ~running

\* C8's case: a store was constructed on a file that is not JSON.
C8_Witness ==
    /\ call.op = "start"
    /\ file.kind = "garbage"
    /\ running
    /\ tasks = <<>>

\* C9: update_task with an index in range and valid priority and status
\* values returns True, applies the supplied data fields, leaves every other
\* data field and everything else about the task as it was (a name that is
\* no data field has no effect), and leaves the other tasks, the length and
\* the order unchanged.
C9_UpdateTouchesOnlySuppliedFields ==
    [][ ( /\ call'.op = "update"
          /\ 0 <= call'.index /\ call'.index < Len(tasks)
          /\ \A j \in DOMAIN call'.kw :
                 /\ call'.kw[j][1] = "priority"
                        => Upper(call'.kw[j][2]) \in {"LOW", "MEDIUM", "HIGH"}
                 /\ call'.kw[j][1] = "status"
                        => call'.kw[j][2] \in Range(StatusValues) )
        => LET pos == call'.index + 1
               kw == call'.kw
               supplied == {kw[j][1] : j \in DOMAIN kw}
           IN /\ call'.outcome = "True"
              /\ Len(tasks') = Len(tasks)
              /\ \A i \in DOMAIN tasks : i # pos => tasks'[i] = tasks[i]
              /\ \A k \in DataFields \ supplied :
                     tasks'[pos][k] = tasks[pos][k]
              /\ tasks'[pos].attrs = tasks[pos].attrs
              /\ \A j \in DOMAIN kw :
                     kw[j][1] \in DataFields \ {"priority", "status"}
                         => tasks'[pos][kw[j][1]] = kw[j][2]
      ]_vars

\* C10: the front-end's update flow, given a valid task number and valid
\* menu choices, reaches "Task updated successfully!" with the chosen title,
\* description, due date, priority and status on the task and the collection
\* persisted, and no error escapes.
C10_UIUpdateSucceeds ==
    ( /\ call.op = "ui_update"
      /\ 1 <= call.index /\ call.index <= Len(tasks) )
    => /\ call.outcome = "Task updated successfully!"
       /\ running
       /\ LET t == tasks[call.index]
          IN /\ t.title = call.kw[1][2]
             /\ t.description = call.kw[2][2]
             /\ t.due_date = call.kw[3][2]
             /\ t.priority = call.kw[4][2]
             /\ t.status = call.kw[5][2]
       /\ file = JsonFile(Dump(tasks))
====
